---- MODULE Spec2Model ----
(***************************************************************************)
(* Game state store of the runner (src/store.ts) with the level target     *)
(* texts of src/types.ts.                                                  *)
(*                                                                         *)
(* Units.  speed is a JavaScript double in the source; here it is an       *)
(* integer number of hundredths (RUN_SPEED_BASE 22.5 is 2250).  Every      *)
(* increment the store adds (1.35, 1.2, 0.9 per letter, 7.2 per level) is  *)
(* a whole number of hundredths, so the arithmetic is exact; binary        *)
(* rounding of doubles is not modelled.  Fractions are kept as the         *)
(* numerators the source writes: 0.60 is 60 (percent), 0.40 is 40          *)
(* (percent), 0.8 is 8 (tenths).  Times are milliseconds.                  *)
(*                                                                         *)
(* Characters of the target texts are written as ASCII tokens (one token   *)
(* per code point): "ying" for U+82F1, "fwcomma" for U+FF0C, and so on.    *)
(***************************************************************************)
EXTENDS Integers, Sequences, FiniteSets, TLC

VARIABLES
    status,               \* GameState.status
    score,                \* GameState.score
    lives,                \* GameState.lives
    maxLives,             \* GameState.maxLives
    speed,                \* GameState.speed, in hundredths
    collectedLetters,     \* GameState.collectedLetters, an array of indices
    level,                \* GameState.level
    laneCount,            \* GameState.laneCount
    gemsCollected,        \* GameState.gemsCollected
    distance,             \* GameState.distance
    isImmortalityActive,  \* GameState.isImmortalityActive
    immortalityEndsAt,    \* GameState.immortalityEndsAt, epoch ms, 0 when inactive
    now,                  \* the wall clock read by Date.now()
    timers,               \* pending setTimeout callbacks: their due times, oldest first
    objects,              \* LevelManager objectsRef.current, in registry order
    distanceTraveled,     \* LevelManager distanceTraveled.current
    nextLetterDistance,   \* LevelManager nextLetterDistance.current
    nextImmortalityDistance, \* LevelManager nextImmortalityDistance.current
    prevStatus,           \* LevelManager prevStatus.current
    prevLevel,            \* LevelManager prevLevel.current
    nextId                \* how many ids uuidv4() has given out

storeVars ==
    <<status, score, lives, maxLives, speed, collectedLetters, level, laneCount,
      gemsCollected, distance, isImmortalityActive, immortalityEndsAt>>

\* the refs of LevelManager
simVars ==
    <<objects, distanceTraveled, nextLetterDistance, nextImmortalityDistance,
      prevStatus, prevLevel, nextId>>

vars ==
    <<status, score, lives, maxLives, speed, collectedLetters, level, laneCount,
      gemsCollected, distance, isImmortalityActive, immortalityEndsAt, now, timers,
      objects, distanceTraveled, nextLetterDistance, nextImmortalityDistance,
      prevStatus, prevLevel, nextId>>

---------------------------------------------------------------------------
(* Bounds of the model *)

\* the clock advances in steps of TimeStep ms
TimeStep == 2500
\* the clock stops advancing at MaxTime ms
MaxTime == 5000
\* at most MaxTimers expiry callbacks are pending at once
MaxTimers == 2
\* addScore / collectGem are not called once score would pass MaxScore
MaxScore == 50
\* collectGem is not called once gemsCollected has reached MaxGems
MaxGems == 1
\* setDistance is called with 0..MaxDistance
MaxDistance == 1

---------------------------------------------------------------------------
(* src/types.ts *)

MENU == "MENU"
PLAYING == "PLAYING"
GAME_OVER == "GAME_OVER"
VICTORY == "VICTORY"

GameStatus == {MENU, PLAYING, GAME_OVER, VICTORY}

RUN_SPEED_BASE == 2250

LEVEL_TARGET_TEXTS ==
    [l \in 1..3 |->
        CASE l = 1 -> <<"ying", "lizhi", " ", "A", "I", " ",
                        "chuang", "zao", "le", "yuan">>
          [] l = 2 -> <<"wan", "bian", "cheng", "fwcomma", "wan", " ", "A", "I",
                        "fwcomma", "wan", "chuang", "zao">>
          [] l = 3 -> <<"fang", "fei", "hai", "zi", "de", "xiang", "xiang4", "li",
                        "he", "chuang", "zao", "li">>]

\* the characters the two regular expressions of normalizeTargetText remove
\* (of those, the ones that can be written here)
Whitespace == {" ", "tab", "newline", "ideographic-space"}
Punctuation ==
    {"fwcomma", ",", "fwstop", ".", "!", "fwbang", "fwquestion", "?", "dunhao",
     ";", "fwsemicolon", ":", "fwcolon", "middot", "'", "(", ")", "[", "]",
     "{", "}", "<", ">", "-"}

IsKept(c) == c \notin Whitespace /\ c \notin Punctuation

normalizeTargetText(text) == SelectSeq(text, IsKept)

Min(a, b) == IF a < b THEN a ELSE b
Max(a, b) == IF a > b THEN a ELSE b

getTargetTextForLevel(l) == LEVEL_TARGET_TEXTS[Max(1, Min(3, l))]

getTargetCharsForLevel(l) == normalizeTargetText(getTargetTextForLevel(l))

---------------------------------------------------------------------------
(* src/store.ts: constants *)

MAX_LEVEL == 3
LETTER_SPEED_TOTAL_FRACTION == 60
DIFFICULTY_MULT == 8
LEVEL_SPEED_FRACTION == 40
MAX_LANE_COUNT == 9
VICTORY_BONUS == 5000
IMMORTALITY_MS == 5000

makeOdd(n) == IF n % 2 = 0 THEN n + 1 ELSE n

Includes(seq, x) == \E k \in 1..Len(seq) : seq[k] = x

---------------------------------------------------------------------------
(* src/store.ts: the state and the synchronous part of each action, as a   *)
(* function from the state get() returns to the state after the last set() *)

\* the store's data fields, as get() returns them
State ==
    [status |-> status, score |-> score, lives |-> lives, maxLives |-> maxLives,
     speed |-> speed, collectedLetters |-> collectedLetters, level |-> level,
     laneCount |-> laneCount, gemsCollected |-> gemsCollected,
     distance |-> distance, isImmortalityActive |-> isImmortalityActive,
     immortalityEndsAt |-> immortalityEndsAt]

\* the state create() builds
InitialState ==
    [status |-> MENU, score |-> 0, lives |-> 3, maxLives |-> 3, speed |-> 0,
     collectedLetters |-> <<>>, level |-> 1, laneCount |-> 3,
     gemsCollected |-> 0, distance |-> 0, isImmortalityActive |-> FALSE,
     immortalityEndsAt |-> 0]

\* as startGame, ending the game at once
startGame_EndsGame(s) ==
    [s EXCEPT !.status = GAME_OVER, !.score = 0, !.lives = 3, !.maxLives = 3,
              !.speed = RUN_SPEED_BASE, !.collectedLetters = <<>>, !.level = 1,
              !.laneCount = 3, !.gemsCollected = 0, !.distance = 0,
              !.isImmortalityActive = FALSE, !.immortalityEndsAt = 0]

startGame(s) ==
    [s EXCEPT !.status = PLAYING, !.score = 0, !.lives = 3, !.maxLives = 3,
              !.speed = RUN_SPEED_BASE, !.collectedLetters = <<>>, !.level = 1,
              !.laneCount = 3, !.gemsCollected = 0, !.distance = 0,
              !.isImmortalityActive = FALSE, !.immortalityEndsAt = 0]

\* as restartGame, leaving the buff as it is
restartGame_KeepsBuff(s) ==
    [s EXCEPT !.status = PLAYING,
              !.score = 0,
              !.lives = 3,
              !.maxLives = 3,
              !.speed = RUN_SPEED_BASE,
              !.collectedLetters = <<>>,
              !.level = 1,
              !.laneCount = 3,
              !.gemsCollected = 0,
              !.distance = 0]

restartGame(s) ==
    [s EXCEPT !.status = PLAYING, !.score = 0, !.lives = 3, !.maxLives = 3,
              !.speed = RUN_SPEED_BASE, !.collectedLetters = <<>>, !.level = 1,
              !.laneCount = 3, !.gemsCollected = 0, !.distance = 0,
              !.isImmortalityActive = FALSE, !.immortalityEndsAt = 0]

\* mutant: the immortality check is left out
takeDamage_IgnoresBuff(s) ==
    IF s.lives > 1
    THEN [s EXCEPT !.lives = s.lives - 1]
    ELSE [s EXCEPT !.lives = 0, !.status = GAME_OVER, !.speed = 0]

\* mutant: the last life is compared with 0 instead of 1
takeDamage_OffByOne(s) ==
    IF s.isImmortalityActive
    THEN s
    ELSE IF s.lives > 0
         THEN [s EXCEPT !.lives = s.lives - 1]
         ELSE [s EXCEPT !.lives = 0, !.status = GAME_OVER, !.speed = 0]

takeDamage(s) ==
    IF s.isImmortalityActive
    THEN s
    ELSE IF s.lives > 1
         THEN [s EXCEPT !.lives = s.lives - 1]
         ELSE [s EXCEPT !.lives = 0, !.status = GAME_OVER, !.speed = 0]

addScore(s, amount) == [s EXCEPT !.score = s.score + amount]

collectGem(s, value) ==
    [s EXCEPT !.score = s.score + value, !.gemsCollected = s.gemsCollected + 1]

\* mutant: the full-health check and the cap are left out
healOne_NoCap(s) == [s EXCEPT !.lives = s.lives + 1]

\* as healOne, refilling every life
healOne_Refill(s) ==
    IF s.lives >= s.maxLives THEN s
    ELSE [s EXCEPT !.lives = s.maxLives]

healOne(s) ==
    IF s.lives >= s.maxLives
    THEN s
    ELSE [s EXCEPT !.lives = Min(s.lives + 1, s.maxLives)]

setDistance(s, dist) == [s EXCEPT !.distance = dist]

\* mutant: laneCount grows by one, without makeOdd
advanceLevel_NoMakeOdd(s) ==
    [s EXCEPT !.level = s.level + 1,
              !.laneCount = Min(s.laneCount + 1, MAX_LANE_COUNT),
              !.status = PLAYING,
              !.speed = s.speed
                  + (RUN_SPEED_BASE * LEVEL_SPEED_FRACTION * DIFFICULTY_MULT) \div 1000,
              !.collectedLetters = <<>>]

\* as advanceLevel, with the level's speed step added to the base speed and
\* not to the current speed
advanceLevel_SpeedFromBase(s) ==
    LET nextLevel == s.level + 1
        speedIncrease == (RUN_SPEED_BASE * LEVEL_SPEED_FRACTION * DIFFICULTY_MULT) \div 1000
        newSpeed == RUN_SPEED_BASE + speedIncrease
    IN  [s EXCEPT !.level = nextLevel,
                  !.laneCount = Min(makeOdd(s.laneCount + 1), MAX_LANE_COUNT),
                  !.status = PLAYING,
                  !.speed = newSpeed,
                  !.collectedLetters = <<>>]

advanceLevel(s) ==
    LET nextLevel == s.level + 1
        speedIncrease ==
            (RUN_SPEED_BASE * LEVEL_SPEED_FRACTION * DIFFICULTY_MULT) \div 1000
        newSpeed == s.speed + speedIncrease
    IN  [s EXCEPT !.level = nextLevel,
                  !.laneCount = Min(makeOdd(s.laneCount + 1), MAX_LANE_COUNT),
                  !.status = PLAYING,
                  !.speed = newSpeed,
                  !.collectedLetters = <<>>]

\* mutant: the level test is <= MAX_LEVEL, so the last level advances too
collectLetter_AdvancesAtMaxLevel(s, index) ==
    LET targetLen == Len(getTargetCharsForLevel(s.level))
    IN  IF ~Includes(s.collectedLetters, index)
        THEN LET newLetters == Append(s.collectedLetters, index)
                 perLetter ==
                     (RUN_SPEED_BASE * LETTER_SPEED_TOTAL_FRACTION * DIFFICULTY_MULT)
                         \div (1000 * Max(1, targetLen))
                 s1 == [s EXCEPT !.collectedLetters = newLetters,
                                 !.speed = s.speed + perLetter]
             IN  IF Len(newLetters) = targetLen
                 THEN IF s.level <= MAX_LEVEL
                      THEN advanceLevel(s1)
                      ELSE [s1 EXCEPT !.status = VICTORY,
                                      !.score = s1.score + VICTORY_BONUS]
                 ELSE s1
        ELSE s

collectLetter(s, index) ==
    LET targetLen == Len(getTargetCharsForLevel(s.level))
    IN  IF ~Includes(s.collectedLetters, index)
        THEN LET newLetters == Append(s.collectedLetters, index)
                 perLetter ==
                     (RUN_SPEED_BASE * LETTER_SPEED_TOTAL_FRACTION * DIFFICULTY_MULT)
                         \div (1000 * Max(1, targetLen))
                 nextSpeed == s.speed + perLetter
                 s1 == [s EXCEPT !.collectedLetters = newLetters,
                                 !.speed = nextSpeed]
             IN  IF Len(newLetters) = targetLen
                 THEN IF s.level < MAX_LEVEL
                      THEN advanceLevel(s1)
                      ELSE [s1 EXCEPT !.status = VICTORY,
                                      !.score = s1.score + VICTORY_BONUS]
                 ELSE s1
        ELSE s

---------------------------------------------------------------------------
(* LevelManager (src/unnamed/part_001): constants and refs                 *)
(*                                                                         *)
(* Units.  Coordinates along the track (z) and distances travelled are     *)
(* integers in 1/ZUnit of a world unit: speed in hundredths times a frame  *)
(* delta in milliseconds is a whole number of them.  Lane (x) and height   *)
(* (y) coordinates are in hundredths.  Random draws are in thousandths:    *)
(* Math.random() < 0.3 is draw < 300.                                      *)

ZUnit == 100000

OBSTACLE == "OBSTACLE"
GEM == "GEM"
LETTER == "LETTER"
IMMORTALITY == "IMMORTALITY"
HEART == "HEART"
ALIEN == "ALIEN"
MISSILE == "MISSILE"

LANE_WIDTH == 220
SPAWN_DISTANCE == 120 * ZUnit
REMOVE_DISTANCE == 20 * ZUnit
OBSTACLE_HEIGHT == 160
BASE_LETTER_INTERVAL == 150 * ZUnit
\* MISSILE_SPEED = 30 * DIFFICULTY_MULT, in hundredths
MISSILE_SPEED == 300 * DIFFICULTY_MULT
\* the largest frame delta the tick uses, in ms
MAX_DELTA == 50

\* BASE_LETTER_INTERVAL * 1.5 ^ max(0, level - 1)
RECURSIVE getLetterInterval(_)
getLetterInterval(l) ==
    IF l <= 1 THEN BASE_LETTER_INTERVAL
    ELSE (getLetterInterval(l - 1) * 3) \div 2

\* the targetIndex of an object that has none
NoIndex == -1

\* a GameObject as the tick creates it; effects counts the player-hit
\* events and pickup actions the object has triggered
GameObject(type, x, y, z) ==
    [id |-> 0, type |-> type, x |-> x, y |-> y, z |-> z, active |-> TRUE,
     value |-> "", targetIndex |-> NoIndex, points |-> 0, hasFired |-> FALSE,
     effects |-> 0]

\* the refs as a record
Refs ==
    [objects |-> objects, distanceTraveled |-> distanceTraveled,
     nextLetterDistance |-> nextLetterDistance,
     nextImmortalityDistance |-> nextImmortalityDistance,
     prevStatus |-> prevStatus, prevLevel |-> prevLevel]

\* the refs after the first render and its effect: status is MENU
InitialRefs ==
    [objects |-> <<>>, distanceTraveled |-> 0,
     nextLetterDistance |-> getLetterInterval(1),
     nextImmortalityDistance |-> 0,
     prevStatus |-> InitialState.status, prevLevel |-> InitialState.level]

---------------------------------------------------------------------------
(* The store's set(): the data fields take the values of s *)

Set(s) ==
    /\ status' = s.status
    /\ score' = s.score
    /\ lives' = s.lives
    /\ maxLives' = s.maxLives
    /\ speed' = s.speed
    /\ collectedLetters' = s.collectedLetters
    /\ level' = s.level
    /\ laneCount' = s.laneCount
    /\ gemsCollected' = s.gemsCollected
    /\ distance' = s.distance
    /\ isImmortalityActive' = s.isImmortalityActive
    /\ immortalityEndsAt' = s.immortalityEndsAt

Init ==
    /\ status = InitialState.status
    /\ score = InitialState.score
    /\ lives = InitialState.lives
    /\ maxLives = InitialState.maxLives
    /\ speed = InitialState.speed
    /\ collectedLetters = InitialState.collectedLetters
    /\ level = InitialState.level
    /\ laneCount = InitialState.laneCount
    /\ gemsCollected = InitialState.gemsCollected
    /\ distance = InitialState.distance
    /\ isImmortalityActive = InitialState.isImmortalityActive
    /\ immortalityEndsAt = InitialState.immortalityEndsAt
    /\ now = 0
    /\ timers = <<>>
    /\ objects = InitialRefs.objects
    /\ distanceTraveled = InitialRefs.distanceTraveled
    /\ nextLetterDistance = InitialRefs.nextLetterDistance
    /\ nextImmortalityDistance = InitialRefs.nextImmortalityDistance
    /\ prevStatus = InitialRefs.prevStatus
    /\ prevLevel = InitialRefs.prevLevel
    /\ nextId = 0

---------------------------------------------------------------------------
(* The store's actions, each one whole call *)

StartGame == Set(startGame(State)) /\ UNCHANGED <<now, timers, simVars>>

RestartGame == Set(restartGame(State)) /\ UNCHANGED <<now, timers, simVars>>

TakeDamage == Set(takeDamage(State)) /\ UNCHANGED <<now, timers, simVars>>

AddScore(amount) ==
    /\ score + amount <= MaxScore
    /\ Set(addScore(State, amount))
    /\ UNCHANGED <<now, timers, simVars>>

CollectGem(value) ==
    /\ score + value <= MaxScore
    /\ gemsCollected < MaxGems
    /\ Set(collectGem(State, value))
    /\ UNCHANGED <<now, timers, simVars>>

HealOne == Set(healOne(State)) /\ UNCHANGED <<now, timers, simVars>>

\* setDistance has one caller, the reset effect of LevelManager, which calls
\* it when status is GAME_OVER or VICTORY
SetDistance(dist) ==
    /\ status \in {GAME_OVER, VICTORY}
    /\ Set(setDistance(State, dist))
    /\ UNCHANGED <<now, timers, simVars>>

CollectLetter(index) == Set(collectLetter(State, index)) /\ UNCHANGED <<now, timers, simVars>>

\* the state activateImmortality() sets when the buff is not active, given
\* the value t of Date.now()
activateImmortality(s, t) ==
    [s EXCEPT !.isImmortalityActive = TRUE,
              !.immortalityEndsAt = t + IMMORTALITY_MS]

\* as expireImmortality, clearing the flag only
expireImmortality_KeepsEndsAt(s) ==
    [s EXCEPT !.isImmortalityActive = FALSE]

\* the state the setTimeout callback of activateImmortality() sets
expireImmortality(s) ==
    [s EXCEPT !.isImmortalityActive = FALSE, !.immortalityEndsAt = 0]

\* as ActivateImmortality, without the test of isImmortalityActive
ActivateImmortality_Rearms ==
    /\ Len(timers) < MaxTimers
    /\ Set(activateImmortality(State, now))
    /\ timers' = Append(timers, now + IMMORTALITY_MS)
    /\ UNCHANGED <<now, simVars>>

ActivateImmortality ==
    IF ~isImmortalityActive
    THEN /\ Len(timers) < MaxTimers
         /\ Set(activateImmortality(State, now))
         /\ timers' = Append(timers, now + IMMORTALITY_MS)
         /\ UNCHANGED <<now, simVars>>
    ELSE UNCHANGED vars

\* the callback scheduled by setTimeout(..., 5000) runs: never before its
\* delay has passed, and callbacks of equal delay run oldest first
ExpireImmortality ==
    /\ timers # <<>>
    /\ Head(timers) <= now
    /\ Set(expireImmortality(State))
    /\ timers' = Tail(timers)
    /\ UNCHANGED <<now, simVars>>

\* wall-clock time passes
AdvanceTime ==
    /\ now + TimeStep <= MaxTime
    /\ now' = now + TimeStep
    /\ UNCHANGED storeVars
    /\ UNCHANGED <<timers, simVars>>

---------------------------------------------------------------------------
(* Inputs *)

\* amounts given to addScore
ScoreAmounts == {50}
\* obj.points of the gems LevelManager spawns
GemValues == {50, 100}
\* indices given to collectLetter: the target's indices left to right, the
\* next one not yet collected or one collected before
LetterIndices ==
    {i \in 0..(Len(getTargetCharsForLevel(level)) - 1) : i <= Len(collectedLetters)}

\* The callers.  startGame/restartGame are called from the HUD buttons and
\* the MQTT start command in any status.  Every other action is called from
\* the LevelManager frame callback (directly, or through the player-hit event
\* it dispatches), which returns at once unless the status it was rendered
\* with is PLAYING; no caller sets the status back to MENU.  A frame that
\* began while PLAYING goes on calling actions after one of them has changed
\* the status.
InSession == status # MENU

Next ==
    \/ StartGame
    \/ RestartGame
    \/ InSession /\ TakeDamage
    \/ InSession /\ \E amount \in ScoreAmounts : AddScore(amount)
    \/ InSession /\ \E value \in GemValues : CollectGem(value)
    \/ InSession /\ HealOne
    \/ InSession /\ \E index \in LetterIndices : CollectLetter(index)
    \/ \E dist \in 0..MaxDistance : SetDistance(dist)
    \/ InSession /\ ActivateImmortality
    \/ ExpireImmortality
    \/ AdvanceTime

Spec == Init /\ [][Next]_vars

---------------------------------------------------------------------------
(* Scenario A of the specification: a fresh session, then collectLetter    *)
(* once for each target index of level 1, in any order, and nothing else   *)

Level1Indices == 0..(Len(getTargetCharsForLevel(1)) - 1)

NextScenarioA ==
    \/ status = MENU /\ StartGame
    \/ /\ status = PLAYING
       /\ level = 1
       /\ \E index \in Level1Indices :
              /\ ~Includes(collectedLetters, index)
              /\ CollectLetter(index)

SpecScenarioA == Init /\ [][NextScenarioA]_vars

---------------------------------------------------------------------------
(* LevelManager: the reset effect (useEffect on [status, level])           *)

\* as IsNear, keeping everything up to the spawn distance
IsNear_UpToSpawnDistance(o) == o.z >= -SPAWN_DISTANCE

\* the soft reset keeps the objects nearer than 80
IsNear(o) == o.z > -80 * ZUnit

\* as resetEffect, with no hard reset after GAME_OVER
resetEffect_KeepsAfterGameOver(s, r) ==
    LET isRestart == s.status = PLAYING /\ r.prevStatus = GAME_OVER
        isMenuReset == s.status = MENU
        isLevelUp == s.level # r.prevLevel /\ s.status = PLAYING
        isVictoryReset == s.status = PLAYING /\ r.prevStatus = VICTORY
        hard == isMenuReset \/ isVictoryReset
        soft == ~hard /\ isLevelUp /\ s.level > 1
        r1 == IF hard
              THEN [r EXCEPT !.objects = <<>>,
                             !.distanceTraveled = 0,
                             !.nextLetterDistance = getLetterInterval(1),
                             !.nextImmortalityDistance = 0]
              ELSE IF soft
              THEN [r EXCEPT !.objects = SelectSeq(r.objects, IsNear),
                             !.nextLetterDistance =
                                 r.distanceTraveled - SPAWN_DISTANCE
                                     + getLetterInterval(s.level),
                             !.nextImmortalityDistance =
                                 Max(@, r.distanceTraveled + 120 * ZUnit)]
              ELSE r
        s1 == IF ~hard /\ ~soft /\ s.status \in {GAME_OVER, VICTORY}
              THEN setDistance(s, r.distanceTraveled \div ZUnit)
              ELSE s
    IN  [s |-> s1,
         r |-> [r1 EXCEPT !.prevStatus = s.status, !.prevLevel = s.level]]

\* the effect body, run after a render in which status or level differs
\* from the render before; s is the store's state, r the refs
resetEffect(s, r) ==
    LET isRestart == s.status = PLAYING /\ r.prevStatus = GAME_OVER
        isMenuReset == s.status = MENU
        isLevelUp == s.level # r.prevLevel /\ s.status = PLAYING
        isVictoryReset == s.status = PLAYING /\ r.prevStatus = VICTORY
        hard == isMenuReset \/ isRestart \/ isVictoryReset
        soft == ~hard /\ isLevelUp /\ s.level > 1
        r1 == IF hard
              THEN [r EXCEPT !.objects = <<>>,
                             !.distanceTraveled = 0,
                             !.nextLetterDistance = getLetterInterval(1),
                             !.nextImmortalityDistance = 0]
              ELSE IF soft
              THEN [r EXCEPT !.objects = SelectSeq(r.objects, IsNear),
                             !.nextLetterDistance =
                                 r.distanceTraveled - SPAWN_DISTANCE
                                     + getLetterInterval(s.level),
                             !.nextImmortalityDistance =
                                 Max(@, r.distanceTraveled + 120 * ZUnit)]
              ELSE r
        s1 == IF ~hard /\ ~soft /\ s.status \in {GAME_OVER, VICTORY}
              THEN setDistance(s, r.distanceTraveled \div ZUnit)
              ELSE s
    IN  [s |-> s1,
         r |-> [r1 EXCEPT !.prevStatus = s.status, !.prevLevel = s.level]]

\* React renders LevelManager again after a handler has changed the store
\* and before the next handler runs; the effect runs when a dependency
\* changed.  prevStatus and prevLevel hold the values of the last render
\* that ran it.
render(s, r) ==
    IF s.status # r.prevStatus \/ s.level # r.prevLevel
    THEN resetEffect(s, r)
    ELSE [s |-> s, r |-> r]

\* the store and the refs take the values a render leaves
Commit(e) ==
    /\ Set(e.s)
    /\ objects' = e.r.objects
    /\ distanceTraveled' = e.r.distanceTraveled
    /\ nextLetterDistance' = e.r.nextLetterDistance
    /\ nextImmortalityDistance' = e.r.nextImmortalityDistance
    /\ prevStatus' = e.r.prevStatus
    /\ prevLevel' = e.r.prevLevel

---------------------------------------------------------------------------
(* LevelManager: the frame callback, movement and collisions               *)

Abs(n) == IF n < 0 THEN -n ELSE n

\* the listener of the player-hit event applies takeDamage()
playerHit(s) == takeDamage(s)

\* the pickup branch: the store action of the object's type; tm are the
\* pending timers, t is Date.now()
pickup(o, s, tm, t) ==
    LET s1 == IF o.type = GEM
              THEN collectGem(s, IF o.points # 0 THEN o.points ELSE 50)
              ELSE s
        s2 == IF o.type = LETTER /\ o.targetIndex # NoIndex
              THEN collectLetter(s1, o.targetIndex)
              ELSE s1
        arm == o.type = IMMORTALITY /\ ~s2.isImmortalityActive
        s3 == IF arm THEN activateImmortality(s2, t) ELSE s2
        s4 == IF o.type = HEART THEN healOne(s3) ELSE s3
    IN  [s |-> s4,
         timers |-> IF arm THEN Append(tm, t + IMMORTALITY_MS) ELSE tm]

\* as collide, for an object that comes from beyond the player
collide_ZoneFromBeyond(o, prevZ, p, s, tm, t) ==
    LET zThreshold == 2 * ZUnit
        inZZone == prevZ > p.z - zThreshold /\ o.z < p.z + zThreshold
        dx == Abs(o.x - p.x)
        isDamageSource == o.type \in {OBSTACLE, ALIEN, MISSILE}
        playerBottom == p.y
        playerTop == p.y + 180
        objBottom == IF o.type = OBSTACLE THEN 0
                     ELSE IF o.type = MISSILE THEN 50
                     ELSE o.y - 50
        objTop == IF o.type = OBSTACLE THEN OBSTACLE_HEIGHT
                  ELSE IF o.type = MISSILE THEN 150
                  ELSE o.y + 50
        isHit == playerBottom < objTop /\ playerTop > objBottom
        dy == Abs(o.y - p.y)
        consumed == [o EXCEPT !.active = FALSE, !.effects = @ + 1]
        missed == [o |-> o, s |-> s, timers |-> tm]
    IN  IF inZZone /\ dx < 90
        THEN IF isDamageSource
             THEN IF isHit
                  THEN [o |-> consumed, s |-> playerHit(s), timers |-> tm]
                  ELSE missed
             ELSE IF dy < 250
                  THEN LET e == pickup(o, s, tm, t)
                       IN  [o |-> consumed, s |-> e.s, timers |-> e.timers]
                  ELSE missed
        ELSE missed

\* as inZZone, testing the coordinate after the move alone
inZZone_AfterMoveOnly(prevZ, newZ, playerZ) ==
    newZ < playerZ + 2 * ZUnit /\ newZ > playerZ - 2 * ZUnit

\* const zThreshold = 2.0; the swept test between the coordinate before
\* the move and the one after it
inZZone(prevZ, newZ, playerZ) ==
    prevZ < playerZ + 2 * ZUnit /\ newZ > playerZ - 2 * ZUnit

\* the collision test of an active object o that moved from prevZ; p is
\* the player's position
collide(o, prevZ, p, s, tm, t) ==
    LET dx == Abs(o.x - p.x)
        isDamageSource == o.type \in {OBSTACLE, ALIEN, MISSILE}
        playerBottom == p.y
        playerTop == p.y + 180
        objBottom == IF o.type = OBSTACLE THEN 0
                     ELSE IF o.type = MISSILE THEN 50
                     ELSE o.y - 50
        objTop == IF o.type = OBSTACLE THEN OBSTACLE_HEIGHT
                  ELSE IF o.type = MISSILE THEN 150
                  ELSE o.y + 50
        isHit == playerBottom < objTop /\ playerTop > objBottom
        dy == Abs(o.y - p.y)
        consumed == [o EXCEPT !.active = FALSE, !.effects = @ + 1]
        missed == [o |-> o, s |-> s, timers |-> tm]
    IN  IF inZZone(prevZ, o.z, p.z) /\ dx < 90
        THEN IF isDamageSource
             THEN IF isHit
                  THEN [o |-> consumed, s |-> playerHit(s), timers |-> tm]
                  ELSE missed
             ELSE IF dy < 250
                  THEN LET e == pickup(o, s, tm, t)
                       IN  [o |-> consumed, s |-> e.s, timers |-> e.timers]
                  ELSE missed
        ELSE missed

\* as updateObject, leaving hasFired as it is
updateObject_FiresAgain(o, acc, dist, safeDelta, p, t) ==
    LET moveAmount == dist + (IF o.type = MISSILE
                              THEN MISSILE_SPEED * safeDelta ELSE 0)
        prevZ == o.z
        z == prevZ + moveAmount
        fires == /\ o.type = ALIEN
                 /\ o.active
                 /\ ~o.hasFired
                 /\ z > -90 * ZUnit
        moved == [o EXCEPT !.z = z]
        missile == [GameObject(MISSILE, o.x, 100, z + 2 * ZUnit)
                        EXCEPT !.id = acc.nextId]
        c == IF o.active
             THEN collide(moved, prevZ, p, acc.s, acc.timers, t)
             ELSE [o |-> moved, s |-> acc.s, timers |-> acc.timers]
        keep == ~(z > REMOVE_DISTANCE)
    IN  [s |-> c.s,
         timers |-> c.timers,
         kept |-> IF keep THEN Append(acc.kept, c.o) ELSE acc.kept,
         newSpawns |-> IF fires THEN Append(acc.newSpawns, missile)
                       ELSE acc.newSpawns,
         nextId |-> IF fires THEN acc.nextId + 1 ELSE acc.nextId]

\* as updateObject, testing inactive objects for collision too
updateObject_CollidesInactive(o, acc, dist, safeDelta, p, t) ==
    LET moveAmount == dist + (IF o.type = MISSILE
                              THEN MISSILE_SPEED * safeDelta ELSE 0)
        prevZ == o.z
        z == prevZ + moveAmount
        fires == /\ o.type = ALIEN
                 /\ o.active
                 /\ ~o.hasFired
                 /\ z > -90 * ZUnit
        moved == [o EXCEPT !.z = z, !.hasFired = @ \/ fires]
        missile == [GameObject(MISSILE, o.x, 100, z + 2 * ZUnit)
                        EXCEPT !.id = acc.nextId]
        c == collide(moved, prevZ, p, acc.s, acc.timers, t)
        keep == ~(z > REMOVE_DISTANCE)
    IN  [s |-> c.s,
         timers |-> c.timers,
         kept |-> IF keep THEN Append(acc.kept, c.o) ELSE acc.kept,
         newSpawns |-> IF fires THEN Append(acc.newSpawns, missile)
                       ELSE acc.newSpawns,
         nextId |-> IF fires THEN acc.nextId + 1 ELSE acc.nextId]

\* as pastRemoveDistance, for every object behind the player
pastRemoveDistance_BehindPlayer(z) == z > 0

\* if (obj.position[2] > REMOVE_DISTANCE) keep = false
pastRemoveDistance(z) == z > REMOVE_DISTANCE

\* one iteration of the loop over the registry; acc carries the store, the
\* timers, keptObjects, newSpawns and the ids given out
updateObject(o, acc, dist, safeDelta, p, t) ==
    LET moveAmount == dist + (IF o.type = MISSILE
                              THEN MISSILE_SPEED * safeDelta ELSE 0)
        prevZ == o.z
        z == prevZ + moveAmount
        fires == /\ o.type = ALIEN
                 /\ o.active
                 /\ ~o.hasFired
                 /\ z > -90 * ZUnit
        moved == [o EXCEPT !.z = z, !.hasFired = @ \/ fires]
        missile == [GameObject(MISSILE, o.x, 100, z + 2 * ZUnit)
                        EXCEPT !.id = acc.nextId]
        c == IF o.active
             THEN collide(moved, prevZ, p, acc.s, acc.timers, t)
             ELSE [o |-> moved, s |-> acc.s, timers |-> acc.timers]
        keep == ~pastRemoveDistance(z)
    IN  [s |-> c.s,
         timers |-> c.timers,
         kept |-> IF keep THEN Append(acc.kept, c.o) ELSE acc.kept,
         newSpawns |-> IF fires THEN Append(acc.newSpawns, missile)
                       ELSE acc.newSpawns,
         nextId |-> IF fires THEN acc.nextId + 1 ELSE acc.nextId]

\* the loop over the registry, in registry order (each iteration's result
\* is bound as the one element of a set, so that it is computed once)
RECURSIVE sweep(_, _, _, _, _, _)
sweep(objs, acc, dist, safeDelta, p, t) ==
    IF objs = <<>> THEN acc
    ELSE CHOOSE result \in
             {sweep(Tail(objs), a, dist, safeDelta, p, t) :
                 a \in {updateObject(Head(objs), acc, dist, safeDelta, p, t)}} :
             TRUE

---------------------------------------------------------------------------
(* LevelManager: the frame callback, spawning.  A draw d holds the values  *)
(* Math.random() returns in the tick, in thousandths: d.attempt (the 90%   *)
(* test), d.r, d.lane (getRandomLane), d.index (the choice among the       *)
(* available indices), d.alien, d.p (pAlien or p), d.tops (the gem-on-top  *)
(* tests), and d.shuffle, the place the random sort moves the first lane   *)
(* to.                                                                     *)

\* Math.floor(u * n) for a draw u
Scale(u, n) == (u * n) \div 1000

\* as getRandomLane, counting the lanes from 0
getRandomLane_FromZero(n, u) ==
    LET max == n \div 2
    IN  Scale(u, max * 2 + 1)

getRandomLane(n, u) ==
    LET max == n \div 2
    IN  Scale(u, max * 2 + 1) - max

\* availableLanes after the random sort: the lanes -max..max, rotated
shuffledLanes(n, k) ==
    LET max == n \div 2
    IN  [i \in 1..n |-> ((i - 1 + k) % n) - max]

\* the indices of the target not in collectedLetters, ascending
availableIndices(targetLen, letters) ==
    SelectSeq([i \in 1..targetLen |-> i - 1], LAMBDA i : ~Includes(letters, i))

\* the smallest z of a non-empty sequence of objects
MinZ(objs) ==
    LET zs == {objs[i].z : i \in 1..Len(objs)}
    IN  CHOOSE z \in zs : \A y \in zs : z <= y

IsStatic(o) == o.type # MISSILE

\* the spike obstacles of one spawn, each with its gem on top or without
RECURSIVE spikes(_, _, _, _, _)
spikes(lanes, i, countToSpawn, tops, spawnZ) ==
    IF i > countToSpawn THEN <<>>
    ELSE LET laneX == lanes[i] * LANE_WIDTH
             obstacle == GameObject(OBSTACLE, laneX, OBSTACLE_HEIGHT \div 2, spawnZ)
             gem == [GameObject(GEM, laneX, OBSTACLE_HEIGHT + 100, spawnZ)
                         EXCEPT !.points = 100]
         IN  <<obstacle>> \o (IF tops[i] < 300 THEN <<gem>> ELSE <<>>)
                 \o spikes(lanes, i + 1, countToSpawn, tops, spawnZ)

\* as minGap, without any gap
minGap_None(v) == 0

\* as minGap, without the term of the speed
minGap_BaseOnly(v) == 12 * ZUnit

\* const minGap = 12 + (speed * 0.4)
minGap(v) == 12 * ZUnit + v * 400

\* as spawnZ, taking the nearer of the two coordinates
spawnZ_Nearer(furthestZ, v) == Max(furthestZ - minGap(v), -SPAWN_DISTANCE)

\* const spawnZ = Math.min(furthestZ - minGap, -SPAWN_DISTANCE)
spawnZ(furthestZ, v) == Min(furthestZ - minGap(v), -SPAWN_DISTANCE)

\* as canSpawnImmortality, without the cooldown
canSpawnImmortality_Always(dT, niD) == TRUE

\* const canSpawnImmortality =
\*     distanceTraveled.current >= nextImmortalityDistance.current
canSpawnImmortality(dT, niD) == dT >= niD

\* the objects the spawning logic creates, and the cooldowns it sets; c is
\* the store's state the callback was rendered with, dT the distance
\* travelled, nlD and niD the next letter and immortality distances
spawn(keptObjects, c, dT, nlD, niD, d) ==
    LET staticObjects == SelectSeq(keptObjects, IsStatic)
        furthestZ == IF staticObjects # <<>> THEN MinZ(staticObjects)
                     ELSE -20 * ZUnit
        z == spawnZ(furthestZ, c.speed)
        isLetterDue == dT >= nlD
        lane == getRandomLane(c.laneCount, d.lane)
        targetChars == getTargetCharsForLevel(c.level)
        available == availableIndices(Len(targetChars), c.collectedLetters)
        chosenIndex == available[Scale(d.index, Len(available)) + 1]
        letter == [GameObject(LETTER, lane * LANE_WIDTH, 100, z)
                       EXCEPT !.value = targetChars[chosenIndex + 1],
                              !.targetIndex = chosenIndex]
        groundGem == [GameObject(GEM, lane * LANE_WIDTH, 120, z)
                          EXCEPT !.points = 50]
        immortalityChance == IF c.level = 1 THEN 35 ELSE 60
        isPowerup == canSpawnImmortality(dT, niD) /\ d.r < immortalityChance
        isHeartCandidate == ~isPowerup /\ d.r < 100
        isHeart == isHeartCandidate /\ c.lives < c.maxLives
        isObstacle == ~isPowerup /\ ~isHeart /\ d.r > 360
        spawnAlien == c.level >= 2 /\ d.alien < 20 * DIFFICULTY_MULT
        availableLanes == shuffledLanes(c.laneCount, d.shuffle)
        alienCount == IF d.p > 900 /\ Len(availableLanes) >= 3 THEN 3
                      ELSE IF d.p > 700 THEN Min(2, Len(availableLanes))
                      ELSE 1
        aliens == [k \in 1..alienCount |->
                      GameObject(ALIEN, availableLanes[k] * LANE_WIDTH, 150, z)]
        countToSpawn == IF d.p > 850 THEN Min(3, Len(availableLanes))
                        ELSE IF d.p > 600 THEN Min(2, Len(availableLanes))
                        ELSE 1
        none == [new |-> <<>>, nlD |-> nlD, niD |-> niD]
    IN  IF furthestZ > -SPAWN_DISTANCE
        THEN IF isLetterDue
             THEN IF Len(available) > 0
                  THEN [new |-> <<letter>>,
                        nlD |-> nlD + getLetterInterval(c.level),
                        niD |-> niD]
                  ELSE [none EXCEPT !.new = <<groundGem>>]
             ELSE IF d.attempt > 100
             THEN IF isPowerup
                  THEN [new |-> <<GameObject(IMMORTALITY, lane * LANE_WIDTH, 125, z)>>,
                        nlD |-> nlD,
                        niD |-> dT + (IF c.level = 1 THEN 220 ELSE 160) * ZUnit]
                  ELSE IF isHeart
                  THEN [none EXCEPT !.new = <<GameObject(HEART, lane * LANE_WIDTH, 115, z)>>]
                  ELSE IF isObstacle
                  THEN IF spawnAlien
                       THEN [none EXCEPT !.new = aliens]
                       ELSE [none EXCEPT !.new =
                                spikes(availableLanes, 1, countToSpawn, d.tops, z)]
                  ELSE [none EXCEPT !.new = <<groundGem>>]
             ELSE none
        ELSE none

\* the new objects with the ids uuidv4() gives them
withIds(new, base) ==
    [i \in 1..Len(new) |-> [new[i] EXCEPT !.id = base + i - 1]]

---------------------------------------------------------------------------
(* LevelManager: the frame callback as a whole, and the commands           *)

\* as Frame, running the tick whatever the status is
Frame_WhateverStatus(delta, p, d) ==
    LET safeDelta == Min(delta, MAX_DELTA)
        dist == speed * safeDelta
        dT == distanceTraveled + dist
    IN  \E swept \in {sweep(objects,
                            [s |-> State, timers |-> timers, kept |-> <<>>,
                             newSpawns |-> <<>>, nextId |-> nextId],
                            dist, safeDelta, p, now)} :
        \E keptObjects \in {swept.kept \o swept.newSpawns} :
        \E sp \in {spawn(keptObjects, State, dT, nextLetterDistance,
                         nextImmortalityDistance, d)} :
        \E e \in {render(swept.s,
                         [objects |-> keptObjects \o withIds(sp.new, swept.nextId),
                          distanceTraveled |-> dT,
                          nextLetterDistance |-> sp.nlD,
                          nextImmortalityDistance |-> sp.niD,
                          prevStatus |-> prevStatus,
                          prevLevel |-> prevLevel])} :
            /\ Commit(e)
            /\ timers' = swept.timers
            /\ nextId' = swept.nextId + Len(sp.new)
            /\ now' = now + delta

\* useFrame((state, delta) => ...): one frame.  p is the player's position
\* and d the draws of Math.random().  The callback reads status, speed,
\* level, laneCount, collectedLetters, lives and maxLives from the render
\* before the frame, which are the store's values when the frame begins;
\* the store actions called in the loop read the store as it is by then.
\* The clock moves on by delta to the next frame.  (Intermediate results
\* are bound as the one element of a set, so that each is computed once.)
Frame(delta, p, d) ==
    IF status # PLAYING
    THEN /\ now' = now + delta
         /\ UNCHANGED <<storeVars, timers, simVars>>
    ELSE LET safeDelta == Min(delta, MAX_DELTA)
             dist == speed * safeDelta
             dT == distanceTraveled + dist
         IN  \E swept \in {sweep(objects,
                                 [s |-> State, timers |-> timers, kept |-> <<>>,
                                  newSpawns |-> <<>>, nextId |-> nextId],
                                 dist, safeDelta, p, now)} :
             \E keptObjects \in {swept.kept \o swept.newSpawns} :
             \E sp \in {spawn(keptObjects, State, dT, nextLetterDistance,
                              nextImmortalityDistance, d)} :
             \E e \in {render(swept.s,
                              [objects |-> keptObjects \o withIds(sp.new, swept.nextId),
                               distanceTraveled |-> dT,
                               nextLetterDistance |-> sp.nlD,
                               nextImmortalityDistance |-> sp.niD,
                               prevStatus |-> prevStatus,
                               prevLevel |-> prevLevel])} :
                 /\ Commit(e)
                 /\ timers' = swept.timers
                 /\ nextId' = swept.nextId + Len(sp.new)
                 /\ now' = now + delta

\* the start button of the menu screen and the MQTT start command in MENU
StartCommand ==
    /\ status = MENU
    /\ \E e \in {render(startGame(State), Refs)} : Commit(e)
    /\ UNCHANGED <<now, timers, nextId>>

\* the restart buttons of the game-over and victory screens, and the MQTT
\* start command in any status but MENU
RestartCommand ==
    /\ status # MENU
    /\ \E e \in {render(restartGame(State), Refs)} : Commit(e)
    /\ UNCHANGED <<now, timers, nextId>>

---------------------------------------------------------------------------
(* Inputs of the simulation and their bounds *)

\* the frame delta, in ms
FrameDelta == 50
\* frames in MENU stop at MaxMenuTime ms
MaxMenuTime == 50
\* the 90% test of the spawning logic fails once the registry holds
\* MaxObjects objects
MaxObjects == 3

\* the player runs in the middle lane, on the ground or at the top of a jump
PlayerPositions == [x : {0}, y : {0, 200}, z : {0}]

\* every Math.random() of a tick that spawns nothing
NoDraw ==
    [attempt |-> 0, r |-> 999, lane |-> 500, index |-> 999, alien |-> 999,
     p |-> 0, tops |-> <<999, 999, 999>>, shuffle |-> 0]

\* a Letter comes in the middle lane, with the last available index
LetterDraws == {NoDraw}

\* the draws of a spawn that is not a Letter: an Immortality, a Heart or a
\* ground Gem in the middle or the rightmost lane, or a ground Gem in the
\* leftmost lane; or one or three spikes or aliens beginning with the
\* leftmost or the middle lane, spikes with no gem or a gem on each
ExtraDraws ==
    {[NoDraw EXCEPT !.attempt = 999, !.r = r, !.lane = l] :
        r \in {20, 80, 200}, l \in {500, 999}}
    \cup
    {[NoDraw EXCEPT !.attempt = 999, !.r = 200, !.lane = 0]}
    \cup
    {[NoDraw EXCEPT !.attempt = 999, !.r = 500, !.alien = a, !.p = p,
                    !.tops = t, !.shuffle = k] :
        a \in {0, 999}, p \in {500, 950},
        t \in {<<999, 999, 999>>, <<0, 0, 0>>},
        k \in {0, laneCount \div 2}}

\* one spike in the middle lane
SpikeDraws ==
    {[NoDraw EXCEPT !.attempt = 999, !.r = 500, !.p = 500,
                    !.shuffle = laneCount \div 2]}

\* the draws of a ground Gem in the rightmost lane
GemDraw == [NoDraw EXCEPT !.attempt = 999, !.r = 200, !.lane = 999]

\* an Immortality in the rightmost lane, or a ground Gem there while the
\* cooldown of the Immortality lasts
PowerupDraws ==
    {[NoDraw EXCEPT !.attempt = 999, !.r = 20, !.lane = 999]}

\* a Letter is due in the next frame
LetterDue ==
    distanceTraveled + speed * Min(FrameDelta, MAX_DELTA) >= nextLetterDistance

\* a Letter has just been spawned
LetterJustSpawned ==
    \E i \in 1..Len(objects) :
        objects[i].type = LETTER /\ objects[i].active
            /\ objects[i].z <= -SPAWN_DISTANCE

\* after the game has ended the restart command comes at a multiple of
\* CommandPeriod ms
CommandPeriod == 500

RestartAfterEnd ==
    status \in {GAME_OVER, VICTORY} /\ now % CommandPeriod = 0

\* the restart command comes after the game has ended, or during play past
\* level 1 right after a Letter has appeared
RestartMoment ==
    \/ RestartAfterEnd
    \/ status = PLAYING /\ level > 1 /\ LetterJustSpawned

\* the browser runs a timeout that is due before the next frame
NoTimerDue == IF timers = <<>> THEN TRUE ELSE Head(timers) > now

\* frames stop at maxTime ms, and frames in MENU at menuTime ms
FrameAllowed(maxTime, menuTime) ==
    /\ now + FrameDelta <= maxTime
    /\ NoTimerDue
    /\ status = MENU => now < menuTime

---------------------------------------------------------------------------
(* The first stretch of a session: any spawn into an empty registry, then  *)
(* spikes in the player's lane                                             *)

MaxSimTime == 10500

Draws ==
    IF LetterDue THEN LetterDraws
    ELSE IF objects = <<>> THEN ExtraDraws
    ELSE IF Len(objects) < MaxObjects THEN SpikeDraws
    ELSE {NoDraw}

NextSim ==
    \/ StartCommand
    \/ RestartMoment /\ RestartCommand
    \/ /\ FrameAllowed(MaxSimTime, MaxMenuTime)
       /\ \E p \in PlayerPositions, d \in Draws : Frame(FrameDelta, p, d)
    \/ ExpireImmortality

SpecSim == Init /\ [][NextSim]_vars

---------------------------------------------------------------------------
(* A run through the levels: at level 1, besides the Letters, every gap    *)
(* is filled in the rightmost lane, by an attempt at an Immortality (a     *)
(* ground Gem when the cooldown denies it) until the second Letter is      *)
(* collected, and by a ground Gem from then on; past level 1 one spawn of  *)
(* any kind comes into the empty registry before the first Letter of the   *)
(* level is collected, which falls inside the Immortality cooldown that    *)
(* the level-up sets (part_001:644), and between the first and the second  *)
(* Letter every gap is filled by an attempt at an Immortality again.  The  *)
(* player stays in the middle lane, so no Immortality is picked up and no  *)
(* timeout is ever pending in this run.                                    *)

MaxLevelsTime == 80000

DrawsLevels ==
    IF LetterDue THEN LetterDraws
    ELSE IF level = 1
         THEN IF Len(collectedLetters) <= 1 THEN PowerupDraws ELSE {GemDraw}
    ELSE IF collectedLetters = <<>>
         THEN IF objects = <<>> THEN ExtraDraws ELSE {NoDraw}
    ELSE IF Len(collectedLetters) = 1 THEN PowerupDraws
    ELSE {NoDraw}

NextLevels ==
    \/ StartCommand
    \/ RestartMoment /\ RestartCommand
    \/ /\ FrameAllowed(MaxLevelsTime, 0)
       /\ \E p \in PlayerPositions, d \in DrawsLevels : Frame(FrameDelta, p, d)

SpecLevels == Init /\ [][NextLevels]_vars

---------------------------------------------------------------------------
(* A whole game: only Letters are spawned and the player collects each,    *)
(* through the three levels to VICTORY; the restart command comes after    *)
(* the game has ended.                                                     *)

MaxVictoryTime == 161000

DrawsVictory == IF LetterDue THEN LetterDraws ELSE {NoDraw}

NextVictory ==
    \/ StartCommand
    \/ RestartAfterEnd /\ RestartCommand
    \/ /\ FrameAllowed(MaxVictoryTime, 0)
       /\ \E p \in PlayerPositions, d \in DrawsVictory : Frame(FrameDelta, p, d)

SpecVictory == Init /\ [][NextVictory]_vars

\* A session of level 1 in which nothing but Letters is spawned, except in
\* the last MaxBlockerLead world units before the first Letter is due:
\* there each tick's attempt either fails or spawns a ground Gem in the
\* outer lane.  A Gem spawned there delays the first Letter (no gap) and
\* pushes it farther downrange, so that over the runs the first Letter
\* reaches the player anywhere between 120 and 162 world units after it
\* became due.
MaxBlockerLead == 14

MaxLettersTime == 13500

DrawsLetters ==
    IF LetterDue THEN LetterDraws
    ELSE IF /\ collectedLetters = <<>>
            /\ nextLetterDistance - distanceTraveled <= MaxBlockerLead * ZUnit
         THEN {NoDraw, GemDraw}
         ELSE {NoDraw}

NextLetters ==
    \/ StartCommand
    \/ /\ FrameAllowed(MaxLettersTime, 0)
       /\ \E p \in PlayerPositions, d \in DrawsLetters : Frame(FrameDelta, p, d)

SpecLetters == Init /\ [][NextLetters]_vars

---------------------------------------------------------------------------
(* A session of level 1 in which every gap is filled by a spike in the     *)
(* middle lane with a Gem on top, and the player, in the middle lane, is   *)
(* on the ground, halfway up a jump or at the height that clears the       *)
(* spike when an object arrives: on the ground the spike is hit, at the    *)
(* clearing height the Gem is collected, and halfway up both happen in     *)
(* one tick.                                                               *)

MaxLastLifeTime == 8000

\* playerPos.y on the ground, on the way up or down, and above a spike
JumpPositions == [x : {0}, y : {0, 100, 200}, z : {0}]

\* a single spike in the middle lane with a gem on top
SpikeWithGemDraws ==
    {[NoDraw EXCEPT !.attempt = 999, !.r = 500, !.p = 500,
                    !.tops = <<0, 0, 0>>, !.shuffle = laneCount \div 2]}

DrawsLastLife == IF LetterDue THEN LetterDraws ELSE SpikeWithGemDraws

NextLastLife ==
    \/ StartCommand
    \/ /\ FrameAllowed(MaxLastLifeTime, 0)
       /\ \E p \in JumpPositions, d \in DrawsLastLife : Frame(FrameDelta, p, d)

SpecLastLife == Init /\ [][NextLastLife]_vars

---------------------------------------------------------------------------
(* The collision test on its own: a session in play whose registry holds   *)
(* one object, and one iteration of the loop over the registry that moves  *)
(* the object by a distance drawn from TestDists.  A frame moves objects   *)
(* by speed * safeDelta, which is never negative; the negative distance    *)
(* is the move that the specification's collision example describes.       *)

\* pre-tick coordinates are -MaxTestZ .. MaxTestZ world units
MaxTestZ == 6

\* the player on the ground in the middle lane
GroundPosition == [x |-> 0, y |-> 0, z |-> 0]

\* one object of each type at the height the spawning logic gives it, in
\* the player's lane or the lane to the right
TestObjects ==
    {[GameObject(t.type, x, t.y, z * ZUnit) EXCEPT !.targetIndex = t.index] :
        t \in {[type |-> OBSTACLE, y |-> OBSTACLE_HEIGHT \div 2, index |-> NoIndex],
               [type |-> GEM, y |-> 120, index |-> NoIndex],
               [type |-> LETTER, y |-> 100, index |-> 0],
               [type |-> IMMORTALITY, y |-> 125, index |-> NoIndex],
               [type |-> HEART, y |-> 115, index |-> NoIndex],
               [type |-> ALIEN, y |-> 150, index |-> NoIndex],
               [type |-> MISSILE, y |-> 100, index |-> NoIndex]},
        x \in {0, LANE_WIDTH},
        z \in -MaxTestZ..MaxTestZ}

TestDists == {-6 * ZUnit, 6 * ZUnit}

InitCollision ==
    LET s == startGame(InitialState)
    IN  /\ status = s.status
        /\ score = s.score
        /\ lives = s.lives
        /\ maxLives = s.maxLives
        /\ speed = s.speed
        /\ collectedLetters = s.collectedLetters
        /\ level = s.level
        /\ laneCount = s.laneCount
        /\ gemsCollected = s.gemsCollected
        /\ distance = s.distance
        /\ isImmortalityActive = s.isImmortalityActive
        /\ immortalityEndsAt = s.immortalityEndsAt
        /\ now = 0
        /\ timers = <<>>
        /\ \E o \in TestObjects : objects = <<o>>
        /\ distanceTraveled = 0
        /\ nextLetterDistance = getLetterInterval(1)
        /\ nextImmortalityDistance = 0
        /\ prevStatus = s.status
        /\ prevLevel = s.level
        /\ nextId = 1

\* the loop body applied once to the object: distanceTraveled records the
\* distance it was moved
CollisionStep ==
    /\ Len(objects) = 1
    /\ distanceTraveled = 0
    /\ \E dist \in TestDists :
       \E acc \in {updateObject(objects[1],
                                [s |-> State, timers |-> timers, kept |-> <<>>,
                                 newSpawns |-> <<>>, nextId |-> nextId],
                                dist, MAX_DELTA, GroundPosition, now)} :
           /\ Set(acc.s)
           /\ objects' = acc.kept \o acc.newSpawns
           /\ timers' = acc.timers
           /\ nextId' = acc.nextId
           /\ distanceTraveled' = distanceTraveled + dist
    /\ UNCHANGED <<now, nextLetterDistance, nextImmortalityDistance,
                   prevStatus, prevLevel>>

NextCollision == CollisionStep

SpecCollision == InitCollision /\ [][NextCollision]_vars

---------------------------------------------------------------------------
(* The swept test over the whole way of an object: a session in play with  *)
(* one life lost, whose registry holds one active object in the player's   *)
(* lane, downrange of the collision zone; each step is one iteration of    *)
(* the loop over the registry, with a per-tick movement of 1 to            *)
(* MaxSweepStep world units, until the object is culled.  In the player's  *)
(* lane and at spawn height every object that passes the zone test is      *)
(* consumed, and every consumption changes the store.                      *)

\* the object starts at -MaxSweepStart .. -2 world units
MaxSweepStart == 8

\* the per-tick movement is 1 .. MaxSweepStep world units
MaxSweepStep == 30

\* an Alien that has fired already, so that the registry keeps to one object
SweepObjects ==
    {[o EXCEPT !.z = -z * ZUnit, !.hasFired = (o.type = ALIEN)] :
        o \in {t \in TestObjects : t.x = GroundPosition.x /\ t.z = 0},
        z \in 2..MaxSweepStart}

SweepDists == {k * ZUnit : k \in 1..MaxSweepStep}

InitSweep ==
    LET s == takeDamage(startGame(InitialState))
    IN  /\ status = s.status
        /\ score = s.score
        /\ lives = s.lives
        /\ maxLives = s.maxLives
        /\ speed = s.speed
        /\ collectedLetters = s.collectedLetters
        /\ level = s.level
        /\ laneCount = s.laneCount
        /\ gemsCollected = s.gemsCollected
        /\ distance = s.distance
        /\ isImmortalityActive = s.isImmortalityActive
        /\ immortalityEndsAt = s.immortalityEndsAt
        /\ now = 0
        /\ timers = <<>>
        /\ \E o \in SweepObjects : objects = <<o>>
        /\ distanceTraveled = 0
        /\ nextLetterDistance = getLetterInterval(1)
        /\ nextImmortalityDistance = 0
        /\ prevStatus = s.status
        /\ prevLevel = s.level
        /\ nextId = 1

\* the loop body applied to the object, once per tick
SweepStep ==
    /\ Len(objects) = 1
    /\ \E dist \in SweepDists :
       \E acc \in {updateObject(objects[1],
                                [s |-> State, timers |-> timers, kept |-> <<>>,
                                 newSpawns |-> <<>>, nextId |-> nextId],
                                dist, MAX_DELTA, GroundPosition, now)} :
           /\ Set(acc.s)
           /\ objects' = acc.kept \o acc.newSpawns
           /\ timers' = acc.timers
           /\ nextId' = acc.nextId
           /\ distanceTraveled' = distanceTraveled + dist
    /\ now' = now + FrameDelta
    /\ UNCHANGED <<nextLetterDistance, nextImmortalityDistance,
                   prevStatus, prevLevel>>

NextSweep == SweepStep

SpecSweep == InitSweep /\ [][NextSweep]_vars

---------------------------------------------------------------------------
(* Properties *)

\* indices 0..MaxIndex are the arguments of collectLetter the properties
\* range over; the longest target has 12 characters, so 12 is out of range
\* at every level
MaxIndex == 12
AllIndices == 0..MaxIndex

TargetLen(l) == Len(getTargetCharsForLevel(l))

\* a step is a hard reset of the store
ResetStep == StartGame \/ RestartGame

\* C1: in every reachable state, status GAME_OVER implies lives = 0 and
\* speed = 0.
C1_GameOverImpliesFrozen ==
    status = GAME_OVER => (lives = 0 /\ speed = 0)

\* C2: when the expiry callback of a buff runs while a buff is active, that
\* buff is the callback's own (the one whose window ends at the callback's
\* due time): a callback left over from before a startGame/restartGame never
\* clears the buff activated after it.
C2_ExpiryClearsOnlyItsOwnBuff ==
    [][(ExpireImmortality /\ isImmortalityActive)
          => Head(timers) = immortalityEndsAt]_vars

\* C3: once status is GAME_OVER or VICTORY, the only steps that change it
\* are startGame/restartGame, and they set it to PLAYING.
C3_TerminalStatusFrozen ==
    [][(status \in {GAME_OVER, VICTORY} /\ status' # status)
          => (ResetStep /\ status' = PLAYING)]_vars

\* C4: in every reachable state 0 <= lives <= maxLives.
C4_LivesInRange ==
    0 <= lives /\ lives <= maxLives

\* C4 witness: the last life is lost and takeDamage can be called again at
\* the floor.
C4_DamageAtZeroLives ==
    lives = 0 /\ status = GAME_OVER /\ ENABLED TakeDamage

\* C5: takeDamage() while isImmortalityActive leaves lives, status, speed,
\* score, level and collectedLetters unchanged.
C5_DamageIgnoredWhileImmortal ==
    [][(TakeDamage /\ isImmortalityActive)
          => UNCHANGED <<lives, status, speed, score, level, collectedLetters>>]_vars

\* C5 witness: the buff is active with one life left while playing, and
\* takeDamage can be called.
C5_ImmortalOnLastLife ==
    /\ isImmortalityActive
    /\ status = PLAYING
    /\ lives = 1
    /\ ENABLED TakeDamage

\* C6: takeDamage() with no buff active and lives = k > 1 sets lives = k - 1
\* and leaves status and speed unchanged; with lives <= 1 it sets lives = 0,
\* status = GAME_OVER and speed = 0.  So from lives = 3 the first two calls
\* leave status alone and the third sets GAME_OVER.
C6_DamageStep ==
    [][(TakeDamage /\ ~isImmortalityActive)
          => IF lives > 1
             THEN lives' = lives - 1 /\ status' = status /\ speed' = speed
             ELSE lives' = 0 /\ status' = GAME_OVER /\ speed' = 0]_vars

\* C6 witness: the last life was lost with no buff active.
C6_LastLifeLost ==
    status = GAME_OVER /\ lives = 0 /\ speed = 0 /\ ~isImmortalityActive

\* C7 (checked under SpecScenarioA): while fewer than all N indices of level
\* 1 have been collected the level is 1; after the last one level = 2,
\* collectedLetters is empty, laneCount = 5, status = PLAYING and
\* speed = baseSpeed + 48% of baseSpeed + 32% of baseSpeed.
C7_ScenarioA ==
    status = PLAYING =>
        \/ /\ level = 1
           /\ Len(collectedLetters) < TargetLen(1)
        \/ /\ level = 2
           /\ collectedLetters = <<>>
           /\ laneCount = 5
           /\ speed = RUN_SPEED_BASE + (RUN_SPEED_BASE * 48) \div 100
                                     + (RUN_SPEED_BASE * 32) \div 100

\* C7 witness: the last letter of level 1 has been collected.
C7_Level1Completed ==
    status = PLAYING /\ level = 2

\* C8: at level 3 while PLAYING, the step that appends the last missing
\* index to collectedLetters (the collectLetter call that completes the
\* target) sets status = VICTORY and adds exactly 5000 to score without
\* changing level; a step adds 5000 or more to score only if it is such a
\* completing step at level 3; and once the level-3 target is complete it
\* stays complete until a reset, so the bonus is added once per session.
C8_VictoryBonusOnce ==
    [][/\ (/\ level = MAX_LEVEL
           /\ status = PLAYING
           /\ Len(collectedLetters) = TargetLen(MAX_LEVEL) - 1
           /\ collectedLetters' # collectedLetters
           /\ ~ResetStep)
          => (status' = VICTORY /\ score' = score + 5000 /\ level' = level)
       /\ (score' >= score + 5000)
          => /\ level = MAX_LEVEL
             /\ level' = MAX_LEVEL
             /\ Len(collectedLetters) = TargetLen(MAX_LEVEL) - 1
             /\ Len(collectedLetters') = TargetLen(MAX_LEVEL)
             /\ score' = score + 5000
       /\ (level = MAX_LEVEL /\ Len(collectedLetters) >= TargetLen(MAX_LEVEL)
              /\ ~ResetStep)
          => /\ level' = MAX_LEVEL
             /\ Len(collectedLetters') >= TargetLen(MAX_LEVEL)]_vars

\* C8 witness: victory, with the bonus on top of 50 points accrued before.
C8_VictoryWithBonus ==
    status = VICTORY /\ level = MAX_LEVEL /\ score = 5050

\* C9: for every index i, calling collectLetter(i) twice gives the state
\* that calling it once gives.
C9_CollectLetterIdempotent ==
    \A index \in AllIndices :
        collectLetter(collectLetter(State, index), index)
            = collectLetter(State, index)

\* C10: a buff that is active is cleared, other than by a reset, only once
\* its 5-second window has passed.
C10_BuffLastsItsWindow ==
    [][(isImmortalityActive /\ ~isImmortalityActive' /\ ~ResetStep)
          => now >= immortalityEndsAt]_vars

\* C11: activateImmortality() called while the buff is active changes
\* nothing: immortalityEndsAt, the pending expiry callbacks and every other
\* variable keep their values.
C11_ReactivationChangesNothing ==
    [][(ActivateImmortality /\ isImmortalityActive) => UNCHANGED vars]_vars

\* C11 witness: the buff is active with its one expiry callback pending, its
\* window half over, and activateImmortality can be called.
C11_ActiveBuffMidWindow ==
    /\ isImmortalityActive
    /\ status = PLAYING
    /\ timers = <<immortalityEndsAt>>
    /\ now > 0
    /\ now < immortalityEndsAt
    /\ ENABLED ActivateImmortality

\* C13: across a step, other than a reset, whose pre- and post-state both
\* have status PLAYING the speed does not decrease, and it increases
\* strictly when the step collects a letter not collected before or advances
\* the level.
C13_SpeedMonotoneWhilePlaying ==
    [][(status = PLAYING /\ status' = PLAYING /\ ~ResetStep)
          => /\ speed' >= speed
             /\ (collectedLetters' # collectedLetters => speed' > speed)
             /\ (level' # level => speed' > speed)]_vars

\* C13 witness: level 3 was reached and a letter collected there, with all
\* lives left.
C13_LettersAtLevel3 ==
    /\ status = PLAYING
    /\ level = 3
    /\ collectedLetters # <<>>
    /\ lives = maxLives

\* lane counts the properties range over
OddLaneCounts == {3, 5, 7, 9}

\* C14: in every reachable state laneCount is odd and 3 <= laneCount <= 9,
\* and advanceLevel maps an odd laneCount n to min(n + 2, 9).
C14_LaneCountOddInRange ==
    /\ laneCount % 2 = 1
    /\ 3 <= laneCount
    /\ laneCount <= 9
    /\ \A n \in OddLaneCounts :
           advanceLevel([State EXCEPT !.laneCount = n]).laneCount = Min(n + 2, 9)

\* C14 witness: two level advances have widened the track twice.
C14_TwoAdvances ==
    laneCount = 7 /\ level = 3 /\ collectedLetters = <<>>

\* C15: from any state startGame() and restartGame() give the same state,
\* the one with status = PLAYING, score = 0, lives =
\* maxLives = 3, speed = baseSpeed, level = 1, laneCount = 3, gemsCollected
\* = 0, distance = 0, collectedLetters empty, isImmortalityActive = FALSE
\* and immortalityEndsAt = 0.
C15_StartAndRestartAgree ==
    /\ startGame(State) = restartGame(State)
    /\ restartGame(State) =
           [status |-> PLAYING, score |-> 0, lives |-> 3, maxLives |-> 3,
            speed |-> RUN_SPEED_BASE, collectedLetters |-> <<>>, level |-> 1,
            laneCount |-> 3, gemsCollected |-> 0, distance |-> 0,
            isImmortalityActive |-> FALSE, immortalityEndsAt |-> 0]

\* C15 witness: a fresh session whose buff is off while the expiry callback
\* of a buff is still pending before its due time, so a reset has cleared a
\* session in which the buff was active.
C15_ResetDuringBuff ==
    /\ status = PLAYING
    /\ score = 0
    /\ level = 1
    /\ ~isImmortalityActive
    /\ timers # <<>>
    /\ now < Head(timers)

\* C16: healOne() with lives = maxLives changes nothing; with lives <
\* maxLives it adds exactly 1 to lives and changes nothing else.
C16_HealStep ==
    [][HealOne =>
          IF lives >= maxLives
          THEN UNCHANGED vars
          ELSE /\ lives' = lives + 1
               /\ UNCHANGED <<status, score, maxLives, speed, collectedLetters,
                              level, laneCount, gemsCollected, distance,
                              isImmortalityActive, immortalityEndsAt, now,
                              timers, simVars>>]_vars

\* C16 witness: one life left of three while playing, and healOne can be
\* called.
C16_HealAtOneLife ==
    lives = 1 /\ maxLives = 3 /\ status = PLAYING /\ ENABLED HealOne

\* C18: in every reachable state 1 <= level <= 3.
C18_LevelInRange ==
    1 <= level /\ level <= MAX_LEVEL

\* C18 witness: the level-3 target is complete.
C18_Level3TargetComplete ==
    level = MAX_LEVEL /\ Len(collectedLetters) = TargetLen(MAX_LEVEL)

\* a tick of the simulation: a frame while the game is being played
Tick == status = PLAYING /\ now' # now

\* C12: no step takes status from MENU directly to GAME_OVER or VICTORY;
\* from MENU a step leaves status at MENU or takes it to PLAYING, so every
\* path from the initial Menu state to an ended game passes through Playing.
C12_MenuLeavesOnlyToPlaying ==
    [][status = MENU => status' \in {MENU, PLAYING}]_vars

\* C12 witness: a game that began in Menu has ended with the third hit, and
\* the component has rendered the ended game.
C12_GameOverReachedInPlay ==
    status = GAME_OVER /\ lives = 0 /\ prevStatus = GAME_OVER /\ now > MaxMenuTime

\* C17: in every state reached by the simulation collectedLetters holds no
\* index twice and only indices 0 .. targetLength(level) - 1 of the current
\* level's target.
C17_LettersValidForLevel ==
    /\ \A i, j \in 1..Len(collectedLetters) :
           collectedLetters[i] = collectedLetters[j] => i = j
    /\ \A i \in 1..Len(collectedLetters) :
           0 <= collectedLetters[i] /\ collectedLetters[i] < TargetLen(level)

\* C19: an object that is inactive in the registry when a tick begins is no
\* longer in the registry when that tick ends, so no inactive object stays
\* for more than one tick after the tick that deactivated it.
C19_InactiveGoneAfterNextTick ==
    [][Tick =>
          \A i \in 1..Len(objects) :
              ~objects[i].active =>
                  \A j \in 1..Len(objects') : objects'[j].id # objects[i].id]_vars

\* C20: an object that is inactive stays inactive for as long as it is in
\* the registry, and an object triggers at most one effect (a player-hit
\* signal or a pickup action) over its lifetime: none while it is active,
\* one when it is deactivated, none afterwards.
C20_ConsumedOnce ==
    [][\A j \in 1..Len(objects') :
          /\ objects'[j].effects = (IF objects'[j].active THEN 0 ELSE 1)
          /\ \A i \in 1..Len(objects) :
                 (objects[i].id = objects'[j].id /\ ~objects[i].active)
                     => ~objects'[j].active]_vars

\* C20 witness: an object consumed on entering the collision zone has spent
\* further ticks inside the zone, past the player, with its one effect.
C20_ConsumedObjectInZone ==
    \E i \in 1..Len(objects) :
        /\ ~objects[i].active
        /\ objects[i].effects = 1
        /\ objects[i].z > 0
        /\ objects[i].z < 2 * ZUnit

C22_SessionStartsHardReset ==
    [][(status # PLAYING /\ status' = PLAYING)
          => /\ objects' = <<>>
             /\ distanceTraveled' = 0
             /\ nextLetterDistance' = 150 * ZUnit
             /\ nextImmortalityDistance' = 0]_vars

\* C22 witness: a new session begun after an earlier one, which had
\* spawned objects, has ended.
C22_RestartedSession ==
    /\ status = PLAYING
    /\ prevStatus = PLAYING
    /\ nextId > 0
    /\ objects = <<>>
    /\ distanceTraveled = 0

\* C23: a frame that runs while status is not PLAYING changes nothing in
\* the simulation or the store: the registry, distanceTraveled and the
\* other refs, the store's fields and the pending timeouts stay as they are.
C23_FrameOutsidePlayChangesNothing ==
    [][(status # PLAYING /\ now' # now)
          => UNCHANGED <<storeVars, timers, simVars>>]_vars

\* C23 witness: the game has ended with objects in the registry, and more
\* time has passed than the frames in MENU and the frames of the session
\* (all at the base speed) took: frames have run after the game ended.
C23_FramesAfterGameOver ==
    /\ status = GAME_OVER
    /\ objects # <<>>
    /\ collectedLetters = <<>>
    /\ now > MaxMenuTime + distanceTraveled \div RUN_SPEED_BASE

\* C24: in every step the Missiles created are as many as the Aliens whose
\* hasFired turns true, so Missiles are created by firing Aliens only; an
\* Alien that has not fired fires in the first tick in which it is active
\* and its coordinate exceeds -90, and hasFired never turns false again, so
\* an Alien creates at most one Missile.
C24_OneMissilePerAlien ==
    [][LET created == {j \in 1..Len(objects') :
                         objects'[j].type = MISSILE /\ objects'[j].id >= nextId}
           turned == {i \in 1..Len(objects) :
                        /\ objects[i].type = ALIEN
                        /\ ~objects[i].hasFired
                        /\ \E j \in 1..Len(objects') :
                               /\ objects'[j].id = objects[i].id
                               /\ objects'[j].hasFired}
       IN  /\ Cardinality(created) = Cardinality(turned)
           /\ \A i \in 1..Len(objects), j \in 1..Len(objects') :
                  (objects[i].type = ALIEN /\ objects'[j].id = objects[i].id)
                      => (objects'[j].hasFired <=>
                             \/ objects[i].hasFired
                             \/ /\ status = PLAYING
                                /\ now' # now
                                /\ objects[i].active
                                /\ objects'[j].z > -90 * ZUnit)]_vars

\* C24 witness: an Alien that has fired and a Missile in its lane.
C24_AlienHasFired ==
    \E i, j \in 1..Len(objects) :
        /\ objects[i].type = ALIEN
        /\ objects[i].hasFired
        /\ objects[j].type = MISSILE
        /\ objects[j].x = objects[i].x

\* the coordinate of object o after a tick of the state, while in play
MovedZ(o) ==
    LET safeDelta == Min(now' - now, MAX_DELTA)
    IN  o.z + speed * safeDelta
            + (IF o.type = MISSILE THEN MISSILE_SPEED * safeDelta ELSE 0)

\* C25: in a tick in which level increases while status stays PLAYING, the
\* registry afterwards holds only objects with coordinate greater than -80;
\* every object that the tick moved to a coordinate greater than -80 (and
\* did not cull) is kept with its kind and position, and with its active
\* flag unless the tick itself consumed it; every object the tick moved to
\* a coordinate of -80 or beyond is dropped; and distanceTraveled goes on
\* from its value instead of being reset.
C25_SoftResetKeepsNearObjects ==
    [][(status = PLAYING /\ status' = PLAYING /\ level' > level)
          => /\ \A j \in 1..Len(objects') : objects'[j].z > -80 * ZUnit
             /\ \A i \in 1..Len(objects) :
                    IF MovedZ(objects[i]) > -80 * ZUnit
                          /\ MovedZ(objects[i]) <= REMOVE_DISTANCE
                    THEN \E j \in 1..Len(objects') :
                            /\ objects'[j].id = objects[i].id
                            /\ objects'[j].type = objects[i].type
                            /\ objects'[j].x = objects[i].x
                            /\ objects'[j].y = objects[i].y
                            /\ objects'[j].z = MovedZ(objects[i])
                            /\ objects'[j].active => objects[i].active
                            /\ (objects[i].active /\ ~objects'[j].active)
                                   => objects'[j].z > -2 * ZUnit
                    ELSE \A j \in 1..Len(objects') :
                            objects'[j].id # objects[i].id
             /\ distanceTraveled' =
                    distanceTraveled + speed * Min(now' - now, MAX_DELTA)
             /\ distanceTraveled' > 0]_vars

\* C25 witness: level 2 has just begun (the next-letter distance is the one
\* the soft reset computes from the distance travelled); the registry holds
\* an active Gem and nothing at -80 or beyond, where the spawning of level 1
\* had kept an object until then.
C25_AfterSoftReset ==
    /\ status = PLAYING
    /\ level = 2
    /\ prevLevel = 2
    /\ collectedLetters = <<>>
    /\ nextLetterDistance = distanceTraveled - SPAWN_DISTANCE + getLetterInterval(2)
    /\ \E i \in 1..Len(objects) : objects[i].type = GEM /\ objects[i].active
    /\ \A i \in 1..Len(objects) : objects[i].z > -80 * ZUnit

\* the places in the registry after a step of the objects the Spawn
\* Scheduler created in that step
Spawned == {j \in 1..Len(objects') :
               objects'[j].id >= nextId /\ objects'[j].type # MISSILE}

\* C26: a Letter is spawned only in a tick with a spawn gap (no other
\* non-Missile object at -120 or beyond) and with distanceTraveled at or
\* beyond nextLetterDistance, the scheduler spawns nothing else in that
\* tick, the Letter's targetIndex is an index of the level's target that is
\* not in collectedLetters when it is spawned, and nextLetterDistance
\* advances by exactly the level's interval.
C26_LetterSpawn ==
    [][\A j \in Spawned :
          objects'[j].type = LETTER =>
              /\ status = PLAYING
              /\ now' # now
              /\ \A k \in 1..Len(objects') :
                     (k # j /\ objects'[k].type # MISSILE)
                         => objects'[k].z > -SPAWN_DISTANCE
              /\ distanceTraveled' >= nextLetterDistance
              /\ Spawned = {j}
              /\ objects'[j].targetIndex \in 0..(TargetLen(level') - 1)
              /\ ~Includes(collectedLetters', objects'[j].targetIndex)
              /\ nextLetterDistance' =
                     nextLetterDistance + getLetterInterval(level')]_vars

\* the objects of kind t among those the Spawn Scheduler created in a step
SpawnedOf(t) == {j \in Spawned : objects'[j].type = t}

\* C27: every object the Spawn Scheduler creates is in a lane of
\* -(laneCount \div 2) .. (laneCount \div 2), for the laneCount the store
\* has when the tick begins, and the Obstacles of one spawn, or its Aliens,
\* are at most three and in pairwise distinct lanes.
C27_SpawnLanes ==
    [][/\ \A j \in Spawned :
             \E lane \in -(laneCount \div 2)..(laneCount \div 2) :
                 objects'[j].x = lane * LANE_WIDTH
       /\ \A t \in {OBSTACLE, ALIEN} :
             /\ Cardinality(SpawnedOf(t)) <= 3
             /\ \A j, k \in SpawnedOf(t) :
                    j # k => objects'[j].x # objects'[k].x]_vars

\* C27 witness: with five lanes, a row of three Aliens in the lanes -2, -1
\* and 0 is in the registry.
C27_AlienRow ==
    /\ laneCount = 5
    /\ \E i, j, k \in 1..Len(objects) :
          /\ objects[i].type = ALIEN /\ objects[i].x = -2 * LANE_WIDTH
          /\ objects[j].type = ALIEN /\ objects[j].x = -LANE_WIDTH
          /\ objects[k].type = ALIEN /\ objects[k].x = 0
          /\ objects[i].z = objects[j].z
          /\ objects[j].z = objects[k].z

\* C28: an Immortality is spawned only in a tick whose distanceTraveled has
\* reached nextImmortalityDistance, and the spawn moves that marker 220
\* (level 1) or 160 (level 2 and above) beyond the distance travelled; a
\* level-up in play leaves the marker at least 120 beyond the distance
\* travelled; and the marker never moves back, except to 0 together with
\* distanceTraveled when a new session begins.
C28_ImmortalityCooldown ==
    [][/\ SpawnedOf(IMMORTALITY) # {} =>
             /\ distanceTraveled' >= nextImmortalityDistance
             /\ nextImmortalityDistance' >=
                    distanceTraveled' + (IF level = 1 THEN 220 ELSE 160) * ZUnit
       /\ (status = PLAYING /\ status' = PLAYING /\ level' > level) =>
             nextImmortalityDistance' >= distanceTraveled' + 120 * ZUnit
       /\ nextImmortalityDistance' < nextImmortalityDistance =>
             /\ status # PLAYING
             /\ status' = PLAYING
             /\ distanceTraveled' = 0
             /\ objects' = <<>>]_vars

\* C28 witness: at level 2, more than 120 after the level-up and with the
\* first Letter of the level collected, an Immortality has just been
\* spawned and the marker is 160 ahead.
C28_ImmortalityAtLevelTwo ==
    /\ status = PLAYING
    /\ level = 2
    /\ Len(collectedLetters) = 1
    /\ nextImmortalityDistance = distanceTraveled + 160 * ZUnit
    /\ \E i \in 1..Len(objects) :
          /\ objects[i].type = IMMORTALITY
          /\ objects[i].z <= -SPAWN_DISTANCE

C30_SpawnNoFartherThanSpawnDistance ==
    [][\A j \in Spawned : objects'[j].z >= -SPAWN_DISTANCE]_vars

\* C30: every object the Spawn Scheduler creates has a coordinate of -120
\* or farther, and nearer than -120 minus the required gap 12 + 0.4 * speed
\* for the speed the tick runs with.
C30_SpawnBeyondSpawnDistance ==
    [][\A j \in Spawned :
          /\ objects'[j].z <= -SPAWN_DISTANCE
          /\ objects'[j].z > -SPAWN_DISTANCE - (12 * ZUnit + speed * 400)]_vars

\* C30 witness: the object spawned last is in the registry farther than
\* -120.
C30_ObjectBeyondSpawnDistance ==
    /\ status = PLAYING
    /\ \E i \in 1..Len(objects) :
          /\ objects[i].id = nextId - 1
          /\ objects[i].type # MISSILE
          /\ objects[i].z < -SPAWN_DISTANCE

\* C31: whatever the movement per tick, an object that starts active and
\* downrange of the collision zone is never culled without having passed
\* the zone test: when it is dropped from the registry it either has been
\* consumed in an earlier tick or is consumed in the tick that drops it.
C31_NoTunneling ==
    [][(objects # <<>> /\ objects' = <<>>)
          => IF objects[1].active
             THEN storeVars' # storeVars
             ELSE objects[1].effects = 1]_vars

\* C31 witness: after one tick the object is behind the collision zone,
\* having been before it when the tick began, and it has been consumed.
C31_ConsumedAcrossTheZone ==
    /\ now = FrameDelta
    /\ objects # <<>>
    /\ objects[1].type # MISSILE
    /\ objects[1].z > 2 * ZUnit
    /\ objects[1].z - distanceTraveled < -2 * ZUnit
    /\ ~objects[1].active
    /\ objects[1].effects = 1

\* C32: in a tick in play with speed above 0 and no level change, every
\* object of the registry moves on by speed * safeDelta (a Missile by its
\* own speed more), and it is dropped from the registry exactly if that
\* move takes its coordinate beyond REMOVE_DISTANCE, active or not; so an
\* object is dropped in the first tick that takes it beyond that distance,
\* not before, and after finitely many ticks.
C32_CulledBeyondRemoveDistance ==
    [][(status = PLAYING /\ now' # now /\ level' = level /\ speed > 0)
          => \A i \in 1..Len(objects) :
                /\ MovedZ(objects[i]) > objects[i].z
                /\ IF MovedZ(objects[i]) > REMOVE_DISTANCE
                   THEN \A j \in 1..Len(objects') :
                           objects'[j].id # objects[i].id
                   ELSE \E j \in 1..Len(objects') :
                           /\ objects'[j].id = objects[i].id
                           /\ objects'[j].z = MovedZ(objects[i])]_vars

\* C32 witness: early in the first session the first object spawned has been
\* dropped, and an active object is behind the player, not yet beyond
\* REMOVE_DISTANCE.
C32_FirstObjectCulled ==
    /\ status = PLAYING
    /\ level = 1
    /\ distanceTraveled > 140 * ZUnit
    /\ distanceTraveled < 300 * ZUnit
    /\ objects # <<>>
    /\ \A i \in 1..Len(objects) : objects[i].id > 0
    /\ \E i \in 1..Len(objects) : objects[i].z > 0 /\ objects[i].active

\* C33: a restartGame() issued while status is PLAYING leaves the simulation
\* hard-reset: the registry empty, distanceTraveled 0, the next-letter
\* distance at the interval of level 1 and the immortality marker 0.
C33_RestartInPlayHardResets ==
    [][(status = PLAYING /\ now' = now /\ State' = restartGame(State))
          => /\ objects' = <<>>
             /\ distanceTraveled' = 0
             /\ nextLetterDistance' = getLetterInterval(1)
             /\ nextImmortalityDistance' = 0]_vars

\* the fields of the store that a collision outcome can change
Outcome(s) ==
    <<s.score, s.gemsCollected, s.collectedLetters, s.speed, s.lives,
      s.level, s.status>>

\* the store after the loop of a tick has processed the first k objects of
\* the registry, for the player's position p
AfterObjects(k, p) ==
    LET safeDelta == Min(now' - now, MAX_DELTA)
    IN  sweep(SubSeq(objects, 1, k),
              [s |-> State, timers |-> timers, kept |-> <<>>,
               newSpawns |-> <<>>, nextId |-> nextId],
              speed * safeDelta, safeDelta, p, now).s

\* C34: in a tick in play, for the position the player has in it, once the
\* loop over the registry has processed an object that moves status out of
\* PLAYING, score, gemsCollected, collectedLetters, speed, lives, level and
\* status are, when the tick is over, what they were at that moment.
C34_NothingAfterTheEnd ==
    [][(status = PLAYING /\ now' # now)
          => \A p \in JumpPositions :
                Outcome(AfterObjects(Len(objects), p)) = Outcome(State')
                    => \A k \in 1..Len(objects) :
                          AfterObjects(k, p).status # PLAYING
                              => Outcome(AfterObjects(k, p)) = Outcome(State')]_vars

\* the active Letters of the registry that a step consumes
ConsumedLetters ==
    {i \in 1..Len(objects) :
        /\ objects[i].type = LETTER
        /\ objects[i].active
        /\ \E j \in 1..Len(objects') :
               objects'[j].id = objects[i].id /\ ~objects'[j].active}

\* C35: whenever the pickup of a Letter adds to the level's progress
\* (collectedLetters or level changes in the tick that consumes it), the
\* Letter's targetIndex is an index of the target of the level being played
\* and its value is the character of that target at the index.
C35_PickupMatchesTarget ==
    [][(collectedLetters' # collectedLetters \/ level' # level)
          => \A i \in ConsumedLetters :
                /\ objects[i].targetIndex \in 0..(TargetLen(level) - 1)
                /\ objects[i].value =
                       getTargetCharsForLevel(level)[objects[i].targetIndex + 1]]_vars

\* two objects of the registry are of one batch or at least 12 apart
Apart(objs) ==
    \A i, j \in 1..Len(objs) :
        (objs[i].type # MISSILE /\ objs[j].type # MISSILE)
            => \/ objs[i].z = objs[j].z
               \/ Abs(objs[i].z - objs[j].z) >= 12 * ZUnit

\* C36: after every step any two non-Missile objects of the registry have
\* one coordinate or are at least 12 apart, which is more than the width of the collision
\* zone plus the movement of a tick; so the non-Missile objects that pass
\* the zone test in one tick all have one coordinate.
C36_OneBatchInTheZone ==
    [][/\ Apart(objects')
       /\ 12 * ZUnit > 4 * ZUnit + speed * MAX_DELTA
       /\ (status = PLAYING /\ now' # now) =>
             \A i, j \in 1..Len(objects) :
                (/\ objects[i].type # MISSILE
                 /\ objects[j].type # MISSILE
                 /\ inZZone(objects[i].z, MovedZ(objects[i]), 0)
                 /\ inZZone(objects[j].z, MovedZ(objects[j]), 0))
                    => objects[i].z = objects[j].z]_vars

\* C36 witness: past level 1 two Aliens of one row are in the collision
\* zone together, and an object of another batch is in the registry.
C36_RowInTheZone ==
    /\ status = PLAYING
    /\ level > 1
    /\ \E i, j, k \in 1..Len(objects) :
          /\ i # j
          /\ objects[i].type = ALIEN
          /\ objects[j].type = ALIEN
          /\ objects[i].z = objects[j].z
          /\ objects[i].z > -2 * ZUnit
          /\ objects[i].z < 2 * ZUnit
          /\ objects[k].type # MISSILE
          /\ objects[k].z # objects[i].z


\* C37: in every state of a session with status PLAYING or VICTORY the
\* speed is the one the progress stands for,
\* baseSpeed * (1 + 0.8 * (level - 1) + 0.48 * |collectedLetters| / targetLength(level)),
\* stated in hundredths and multiplied out by 100 * targetLength(level).
C37_SpeedFollowsProgress ==
    status \in {PLAYING, VICTORY} =>
        speed * 100 * TargetLen(level)
            = RUN_SPEED_BASE * (100 * TargetLen(level)
                                + 80 * (level - 1) * TargetLen(level)
                                + 48 * Len(collectedLetters))

\* C38: in every reachable state laneCount is 2 * level + 1 (3 lanes at
\* level 1, 5 at level 2, 7 at level 3), so it stays below the cap of 9.
C38_LanesFollowLevel ==
    /\ laneCount = 2 * level + 1
    /\ laneCount < MAX_LANE_COUNT

\* C38 witness: the last level is completed, all its letters collected, on
\* seven lanes.
C38_SevenLanesAtVictory ==
    /\ status = VICTORY
    /\ level = MAX_LEVEL
    /\ Len(collectedLetters) = TargetLen(MAX_LEVEL)
    /\ laneCount = 7

\* C39: in every reachable state isImmortalityActive is TRUE exactly when
\* immortalityEndsAt is not 0, and while it is TRUE a callback is pending,
\* due no later than immortalityEndsAt; the step in which a pending callback
\* runs leaves the buff inactive, so the buff does not stay active for ever.
C39_BuffHasAnExpiry ==
    [][/\ isImmortalityActive <=> immortalityEndsAt # 0
       /\ isImmortalityActive' <=> immortalityEndsAt' # 0
       /\ isImmortalityActive' =>
             /\ timers' # <<>>
             /\ \E i \in 1..Len(timers') : timers'[i] <= immortalityEndsAt'
       /\ (timers # <<>> /\ timers' = Tail(timers)) => ~isImmortalityActive']_vars

\* C39 witness: the buff is active in a session begun after an earlier
\* activation, whose callback is pending beside its own.
C39_ActiveBesideStaleTimer ==
    /\ isImmortalityActive
    /\ Len(timers) = 2
    /\ timers[1] < immortalityEndsAt
    /\ timers[2] = immortalityEndsAt

====
